---- MODULE Spec2Model ----
(***************************************************************************)
(* Model of transcribe.py: a CLI that finds the audio/video files of one   *)
(* folder, POSTs each to the Deepgram listen endpoint, formats the JSON    *)
(* answer and writes the transcript next to the source file.               *)
(*                                                                         *)
(* Strings the program inspects (file names, --ext, transcript text) are   *)
(* sequences of one-character strings; strings it only passes on (HTTP     *)
(* bodies, exception messages) are TLA+ strings.                           *)
(*                                                                         *)
(* The platform is POSIX: glob patterns and file names are case-sensitive. *)
(* requests and pathlib behave as their libraries do: raise_for_status     *)
(* raises for 4xx and 5xx, with_suffix rejects a suffix it cannot apply.   *)
(***************************************************************************)
EXTENDS Integers, Sequences, FiniteSets, TLC

(***************************************************************************)
(* Bounds of the model                                                     *)
(***************************************************************************)
\* largest number of entries in the scanned folder
MaxEntries == 3
\* longest transcript text of an utterance or alternative
MaxText == 3
\* longest utterances list of a result
MaxUtterances == 2

\* what a call either returns or raises
Return(v) == [raised |-> FALSE, value |-> v]
Raise(e) == [raised |-> TRUE, value |-> e]

(***************************************************************************)
(* str helpers                                                             *)
(***************************************************************************)
LowerLetters ==
    <<"a", "b", "c", "d", "e", "f", "g", "h", "i", "j", "k", "l",
      "m", "n", "o", "p", "q", "r", "s", "t", "u", "v", "w", "x", "y", "z">>

UpperLetters ==
    <<"A", "B", "C", "D", "E", "F", "G", "H", "I", "J", "K", "L",
      "M", "N", "O", "P", "Q", "R", "S", "T", "U", "V", "W", "X", "Y", "Z">>

\* str.upper / str.lower on one character: letters change case, the rest stays
UpperChar(c) ==
    IF \E k \in 1..Len(LowerLetters) : LowerLetters[k] = c
    THEN UpperLetters[CHOOSE k \in 1..Len(LowerLetters) : LowerLetters[k] = c]
    ELSE c

LowerChar(c) ==
    IF \E k \in 1..Len(UpperLetters) : UpperLetters[k] = c
    THEN LowerLetters[CHOOSE k \in 1..Len(UpperLetters) : UpperLetters[k] = c]
    ELSE c

upper(s) == [k \in 1..Len(s) |-> UpperChar(s[k])]
lower(s) == [k \in 1..Len(s) |-> LowerChar(s[k])]

\* s.endswith(t)
EndsWith(s, t) ==
    /\ Len(t) <= Len(s)
    /\ SubSeq(s, Len(s) - Len(t) + 1, Len(s)) = t

\* s.lstrip('.') : every leading dot is removed
RECURSIVE lstrip_dot(_)
lstrip_dot(s) ==
    IF s # <<>> /\ Head(s) = "." THEN lstrip_dot(Tail(s)) ELSE s

\* the characters str.strip() removes
Whitespace == {" ", "\n"}

RECURSIVE lstrip(_)
lstrip(s) ==
    IF s # <<>> /\ Head(s) \in Whitespace THEN lstrip(Tail(s)) ELSE s

RECURSIVE rstrip(_)
rstrip(s) ==
    IF s # <<>> /\ s[Len(s)] \in Whitespace
    THEN rstrip(SubSeq(s, 1, Len(s) - 1))
    ELSE s

\* str.strip()
strip(s) == rstrip(lstrip(s))

\* str(n) for a non-negative integer
Digits == <<"0", "1", "2", "3", "4", "5", "6", "7", "8", "9">>

RECURSIVE str_int(_)
str_int(n) ==
    IF n < 10 THEN <<Digits[n + 1]>>
    ELSE str_int(n \div 10) \o <<Digits[(n % 10) + 1]>>

\* sep.join(lines)
RECURSIVE join(_, _)
join(sep, lines) ==
    IF lines = <<>> THEN <<>>
    ELSE IF Len(lines) = 1 THEN lines[1]
    ELSE lines[1] \o sep \o join(sep, Tail(lines))

\* every enumeration of a finite set as a sequence
RECURSIVE Orderings(_)
Orderings(S) ==
    IF S = {} THEN {<<>>}
    ELSE UNION {{<<x>> \o r : r \in Orderings(S \ {x})} : x \in S}

Range(s) == {s[k] : k \in 1..Len(s)}

(***************************************************************************)
(* pathlib.PurePosixPath on the name of a path inside the folder           *)
(***************************************************************************)
\* index of the last "." of a name, 0 when it has none (str.rfind + 1)
rfind_dot(name) ==
    IF \E k \in 1..Len(name) : name[k] = "."
    THEN CHOOSE k \in 1..Len(name) :
            name[k] = "." /\ \A j \in (k + 1)..Len(name) : name[j] # "."
    ELSE 0

\* Path.suffix: from the last dot on, unless the dot starts or ends the name
suffix(name) ==
    LET i == rfind_dot(name)
    IN IF 1 < i /\ i < Len(name) THEN SubSeq(name, i, Len(name)) ELSE <<>>

\* Path.stem
stem(name) ==
    LET i == rfind_dot(name)
    IN IF 1 < i /\ i < Len(name) THEN SubSeq(name, 1, i - 1) ELSE name

\* Path.with_suffix(sfx) on the name: ValueError for a suffix that holds a
\* path separator, does not start with a dot, or is a lone dot
with_suffix(name, sfx) ==
    IF \/ "/" \in Range(sfx)
       \/ (sfx # <<>> /\ Head(sfx) # ".")
       \/ sfx = <<".">>
    THEN Raise("ValueError")
    ELSE Return(SubSeq(name, 1, Len(name) - Len(suffix(name))) \o sfx)

(***************************************************************************)
(* File Discoverer                                                         *)
(***************************************************************************)
SUPPORTED_EXTENSIONS ==
    << <<".", "m", "p", "4">>, <<".", "m", "p", "3">>, <<".", "w", "a", "v">>,
       <<".", "m", "4", "a">>, <<".", "f", "l", "a", "c">>,
       <<".", "o", "g", "g">>, <<".", "w", "e", "b", "m">> >>

\* folder.glob("*" + ext) on a POSIX file system: the entries whose name ends
\* with ext, letter case included, in the order the file system lists them
glob(entries, ext) ==
    Orderings({n \in entries : EndsWith(n, ext)})

\* the lists find_audio_files can return: per extension, the lower-case glob
\* and then the upper-case glob
RECURSIVE find_from(_, _)
find_from(entries, k) ==
    IF k > Len(SUPPORTED_EXTENSIONS) THEN {<<>>}
    ELSE {lo \o up \o rest :
            lo \in glob(entries, SUPPORTED_EXTENSIONS[k]),
            up \in glob(entries, upper(SUPPORTED_EXTENSIONS[k])),
            rest \in find_from(entries, k + 1)}

find_audio_files(entries) == find_from(entries, 1)

(***************************************************************************)
(* The parsed API response (a JSON value).  A dict is a record that lists  *)
(* the keys it holds in .keys; a field whose key is absent is never read   *)
(* without a test of .keys.                                                *)
(***************************************************************************)
\* k in d
Has(d, k) == k \in d.keys

\* d.get(k, default)
Get(d, k, default) == IF k \in d.keys THEN d[k] ELSE default

\* the {} that result.get("results", {}) falls back to
EmptyResults == [keys |-> {}, utterances |-> <<>>, channels |-> <<>>]

(***************************************************************************)
(* Transcript Formatter                                                    *)
(***************************************************************************)
\* f"[Speaker {speaker}]: {text}"
SpeakerLine(speaker, text) ==
    <<"[", "S", "p", "e", "a", "k", "e", "r", " ">> \o str_int(speaker)
        \o <<"]", ":", " ">> \o text

\* UtteranceLine without the .strip() of line 78
UtteranceLineUnstripped(utterance) ==
    SpeakerLine(Get(utterance, "speaker", 0), Get(utterance, "transcript", <<>>))

\* the line of one utterance: speaker defaults to 0, transcript to ""
UtteranceLine(utterance) ==
    SpeakerLine(Get(utterance, "speaker", 0),
                strip(Get(utterance, "transcript", <<>>)))

\* the separator of "\n\n".join(lines)
BlankLine == <<"\n", "\n">>

\* ChannelLines without the "if channels:" test of line 82: channels[0] of an
\* empty list is an IndexError
ChannelLinesUnguarded(results) ==
    LET channels == Get(results, "channels", <<>>)
    IN IF channels = <<>> THEN Raise("IndexError")
       ELSE LET alternatives == Get(channels[1], "alternatives", <<>>)
            IN IF alternatives # <<>>
               THEN Return(<< Get(alternatives[1], "transcript", <<>>) >>)
               ELSE Return(<<>>)

\* the else branch: first channel, first alternative
ChannelLines(results) ==
    LET channels == Get(results, "channels", <<>>)
    IN IF channels # <<>>
       THEN LET alternatives == Get(channels[1], "alternatives", <<>>)
            IN IF alternatives # <<>>
               THEN Return(<< Get(alternatives[1], "transcript", <<>>) >>)
               ELSE Return(<<>>)
       ELSE Return(<<>>)

\* the if branch: result["results"]["utterances"], one line per utterance
UtteranceLines(result) ==
    IF ~Has(result, "results") \/ ~Has(result.results, "utterances")
    THEN Raise("KeyError")
    ELSE Return([k \in 1..Len(result.results.utterances) |->
                    UtteranceLine(result.results.utterances[k])])

format_transcript(result, diarization) ==
    LET lines ==
            IF diarization /\ Has(Get(result, "results", EmptyResults), "utterances")
            THEN UtteranceLines(result)
            ELSE ChannelLines(Get(result, "results", EmptyResults))
    IN IF lines.raised THEN lines ELSE Return(join(BlankLine, lines.value))

(***************************************************************************)
(* State                                                                   *)
(***************************************************************************)
VARIABLES
    pc,            \* where main() stands
    api_key,       \* args.api_key: <<>> for None, <<s>> for the string s
    folder_kind,   \* what args.folder names: nothing, a file or a directory
    fs,            \* the folder: entry name -> content
    ext,           \* args.ext
    diarization,   \* args.diarization
    audio_files,   \* the list find_audio_files returned
    i,             \* the loop index of line 174
    output_path,   \* the output name computed for audio_files[i]
    handles,       \* names of the source files open for reading
    response,      \* what requests.post gave: a response or an exception
    result,        \* the value transcribe_file returned
    content,       \* the string format_transcript returned
    status,        \* per discovered file: "discovered", "requested" once its
                   \* POST is sent, "succeeded" once transcribe_file returned,
                   \* "written" once its output is saved, "failed" once a
                   \* handler caught its error
    stderr,        \* the lines printed to sys.stderr
    stdout,        \* the lines printed to sys.stdout
    exit_code,     \* <<>> while running, <<n>> once the process has exited
    opened,        \* names of the source files opened so far
    posted,        \* names of the files whose POST was sent so far
    saved,         \* names opened for writing so far
    ret            \* what a function called on its own returned or raised

vars ==
    <<pc, api_key, folder_kind, fs, ext, diarization, audio_files, i,
      output_path, handles, response, result, content, status, stderr, stdout,
      exit_code, opened, posted, saved, ret>>

\* the variables a call of one function on its own leaves alone
run_vars ==
    <<api_key, folder_kind, fs, ext, audio_files, i, output_path, handles,
      response, content, status, stderr, stdout, exit_code, opened, posted,
      saved>>

NoResponse == [kind |-> "none", status_code |-> 0, text |-> ""]
NoResult == [keys |-> {}, results |-> EmptyResults]
NoReturn == Return(<<>>)

\* the state of a process that has not started main()
Idle ==
    /\ api_key = <<"dg-key">>
    /\ folder_kind = "dir"
    /\ fs = <<>>
    /\ ext = <<"t", "x", "t">>
    /\ audio_files = <<>>
    /\ i = 0
    /\ output_path = <<>>
    /\ handles = {}
    /\ response = NoResponse
    /\ content = <<>>
    /\ status = <<>>
    /\ stderr = <<>>
    /\ stdout = <<>>
    /\ exit_code = <<>>
    /\ opened = <<>>
    /\ posted = <<>>
    /\ saved = <<>>

(***************************************************************************)
(* format_transcript on its own: every shape of a parsed response          *)
(***************************************************************************)
TextChars == {" ", "h"}

\* the sequences over S of length at most n
SeqsUpTo(S, n) == UNION {[1..k -> S] : k \in 0..n}

Texts == SeqsUpTo(TextChars, MaxText)

Speakers == {12}

\* utterance dicts: each of speaker and transcript present or absent
Utterances ==
    {[keys |-> {"speaker", "transcript"}, speaker |-> n, transcript |-> t] :
        n \in Speakers, t \in Texts}
    \cup {[keys |-> {"speaker"}, speaker |-> n, transcript |-> <<>>] : n \in Speakers}
    \cup {[keys |-> {"transcript"}, speaker |-> 0, transcript |-> t] : t \in Texts}
    \cup {[keys |-> {}, speaker |-> 0, transcript |-> <<>>]}

\* alternative dicts
Alternatives ==
    {[keys |-> {"transcript"}, transcript |-> t] : t \in Texts}
    \cup {[keys |-> {}, transcript |-> <<>>]}

\* channel dicts: alternatives absent, empty, or one or two long
Channels ==
    {[keys |-> {"alternatives"}, alternatives |-> a] :
        a \in {<<>>} \cup {<<x>> : x \in Alternatives}
               \cup {<<x, [keys |-> {"transcript"}, transcript |-> <<"h">>]>> :
                        x \in Alternatives}}
    \cup {[keys |-> {}, alternatives |-> <<>>]}

SomeChannel ==
    [keys |-> {"alternatives"},
     alternatives |-> <<[keys |-> {"transcript"}, transcript |-> <<"h", " ">>]>>]

SomeUtterance ==
    [keys |-> {"speaker", "transcript"}, speaker |-> 12, transcript |-> <<" ", "h">>]

\* the channels lists: empty, one channel, or a channel before another
ChannelLists ==
    {<<>>} \cup {<<x>> : x \in Channels} \cup {<<x, SomeChannel>> : x \in Channels}

\* results with every utterances list, beside a plain channels field
UtteranceInput(r) ==
    \E n \in 0..MaxUtterances : \E u \in [1..n -> Utterances] :
        r = [keys |-> {"results"},
             results |-> [keys |-> {"utterances", "channels"}, utterances |-> u,
                          channels |-> <<SomeChannel>>]]

\* results with every channels list, beside no utterances field or a plain one
ChannelInput(r) ==
    \E c \in ChannelLists :
        \/ r = [keys |-> {"results"},
                results |-> [keys |-> {"channels"}, utterances |-> <<>>,
                             channels |-> c]]
        \/ r = [keys |-> {"results"},
                results |-> [keys |-> {"utterances", "channels"},
                             utterances |-> <<SomeUtterance>>, channels |-> c]]

\* results with neither field, with utterances alone, and a response with
\* no "results" at all
BareInput(r) ==
    \/ r = [keys |-> {"results"}, results |-> EmptyResults]
    \/ r = [keys |-> {"results"},
            results |-> [keys |-> {"utterances"}, utterances |-> <<SomeUtterance>>,
                         channels |-> <<>>]]
    \/ r = NoResult

\* the utterances lists are read only with diarization on; the other shapes
\* are drawn with the flag on and off
InitFormat ==
    /\ Idle
    /\ pc = "format_call"
    /\ \/ diarization = TRUE /\ UtteranceInput(result)
       \/ diarization \in BOOLEAN /\ ChannelInput(result)
       \/ diarization \in BOOLEAN /\ BareInput(result)
    /\ ret = NoReturn

\* content = format_transcript(result, diarization)
FormatCall ==
    /\ pc = "format_call"
    /\ pc' = "format_done"
    /\ ret' = format_transcript(result, diarization)
    /\ UNCHANGED <<run_vars, result, diarization>>

NextFormat == FormatCall

SpecFormat == InitFormat /\ [][NextFormat]_vars

(***************************************************************************)
(* Properties of format_transcript                                         *)
(***************************************************************************)
\* the branch of line 75 is taken
DiarizedBranch ==
    /\ diarization
    /\ Has(result, "results")
    /\ Has(result.results, "utterances")

\* s is t without its leading and trailing whitespace
IsTrimOf(s, t) ==
    \E lo \in 1..(Len(t) - Len(s) + 1) :
        /\ s = SubSeq(t, lo, lo + Len(s) - 1)
        /\ \A k \in 1..(lo - 1) : t[k] \in Whitespace
        /\ \A k \in (lo + Len(s))..Len(t) : t[k] \in Whitespace
        /\ s # <<>> => (s[1] \notin Whitespace /\ s[Len(s)] \notin Whitespace)

\* the number a string of decimal digits writes
RECURSIVE DecimalValue(_)
DecimalValue(d) ==
    IF d = <<>> THEN 0
    ELSE 10 * DecimalValue(SubSeq(d, 1, Len(d) - 1))
            + (CHOOSE v \in 0..9 : Digits[v + 1] = d[Len(d)])

\* line is "[Speaker <n>]: <text>" for the utterance u
IsLineOf(line, u) ==
    LET n == IF "speaker" \in u.keys THEN u.speaker ELSE 0
        t == IF "transcript" \in u.keys THEN u.transcript ELSE <<>>
        open == <<"[", "S", "p", "e", "a", "k", "e", "r", " ">>
    IN \E dl \in 1..2 :
        /\ Len(line) >= Len(open) + dl + 3
        /\ SubSeq(line, 1, Len(open)) = open
        /\ SubSeq(line, Len(open) + dl + 1, Len(open) + dl + 3) = <<"]", ":", " ">>
        /\ \A k \in (Len(open) + 1)..(Len(open) + dl) : line[k] \in Range(Digits)
        /\ DecimalValue(SubSeq(line, Len(open) + 1, Len(open) + dl)) = n
        /\ line[Len(open) + 1] # "0" \/ dl = 1
        /\ IsTrimOf(SubSeq(line, Len(open) + dl + 4, Len(line)), t)

\* out is one line per utterance of us, in order, a blank line between two
RECURSIVE IsLinesOf(_, _)
IsLinesOf(out, us) ==
    IF us = <<>> THEN out = <<>>
    ELSE IF Len(us) = 1 THEN IsLineOf(out, us[1])
    ELSE \E n \in 1..(Len(out) - 2) :
            /\ out[n + 1] = "\n" /\ out[n + 2] = "\n"
            /\ IsLineOf(SubSeq(out, 1, n), us[1])
            /\ IsLinesOf(SubSeq(out, n + 3, Len(out)), Tail(us))

\* C4: with diarization on and an utterances list in the result,
\* format_transcript returns one "[Speaker <n>]: <trimmed text>" line per
\* utterance, in list order, joined by "\n\n"; a missing speaker is 0 and a
\* missing transcript gives a line with empty text.
C4_DiarizedLines ==
    (pc = "format_done" /\ DiarizedBranch) =>
        /\ ~ret.raised
        /\ IsLinesOf(ret.value, result.results.utterances)

\* C4 witness: two utterances formatted, one without speaker, one without
\* transcript, one whose text had whitespace to trim
C4_Witness ==
    /\ pc = "format_done" /\ DiarizedBranch /\ ~ret.raised
    /\ Len(result.results.utterances) = 2
    /\ "speaker" \notin result.results.utterances[1].keys
    /\ result.results.utterances[1].transcript = <<" ", "h", " ">>
    /\ result.results.utterances[2].keys = {"speaker"}
    /\ result.results.utterances[2].speaker = 12
    /\ ret.value = <<"[", "S", "p", "e", "a", "k", "e", "r", " ", "0", "]", ":", " ",
                     "h", "\n", "\n",
                     "[", "S", "p", "e", "a", "k", "e", "r", " ", "1", "2", "]", ":",
                     " ">>

\* the first channel's first alternative exists
HasFirstAlternative ==
    /\ Has(result, "results")
    /\ Has(result.results, "channels")
    /\ result.results.channels # <<>>
    /\ Has(result.results.channels[1], "alternatives")
    /\ result.results.channels[1].alternatives # <<>>

\* C5: format_transcript never fails, whatever fields are present; without
\* diarization or without an utterances field it returns the transcript of the
\* first channel's first alternative if present, and "" when there are no
\* channels or no alternatives.
C5_FallbackTotal ==
    pc = "format_done" =>
        /\ ~ret.raised
        /\ (~DiarizedBranch /\ HasFirstAlternative
                /\ Has(result.results.channels[1].alternatives[1], "transcript"))
            => ret.value = result.results.channels[1].alternatives[1].transcript
        /\ (~DiarizedBranch /\ ~HasFirstAlternative) => ret.value = <<>>

\* C5 witness: diarization requested, no utterances field, and the first
\* alternative's transcript returned as it is
C5_Witness ==
    /\ pc = "format_done" /\ diarization /\ ~DiarizedBranch /\ HasFirstAlternative
    /\ ~ret.raised
    /\ ret.value = <<" ", "h", " ">>

\* an empty channels list, formatted to ""
C5_EmptyWitness ==
    /\ pc = "format_done" /\ ~diarization
    /\ Has(result, "results") /\ Has(result.results, "channels")
    /\ result.results.channels = <<>>
    /\ ~ret.raised /\ ret.value = <<>>

(***************************************************************************)
(* The inputs of a run of main()                                           *)
(***************************************************************************)
\* --api-key / DEEPGRAM_API_KEY: unset, set to the empty string, set to a key
ApiKeys == {<<>>, <<"">>, <<"dg-key">>}

FolderKinds == {"missing", "file", "dir"}

\* the names a scanned folder may hold: allow-listed extensions in lower,
\* upper and mixed case, two files of one stem, and a file that is no media
EntryNames ==
    { <<"a", ".", "m", "p", "3">>, <<"b", ".", "m", "p", "3">>,
      <<"c", ".", "M", "P", "3">>, <<"d", ".", "M", "p", "3">>,
      <<"a", ".", "w", "a", "v">>, <<"e", ".", "t", "x", "t">> }

\* what a file holds before the run
MediaBytes == <<"#">>

\* the folders: at most MaxEntries of the names
Folders ==
    {[n \in D |-> MediaBytes] :
        D \in {E \in SUBSET EntryNames : Cardinality(E) <= MaxEntries}}

\* --ext: the default, a value with a leading dot, an allow-listed media
\* extension, and a value that holds a path separator
ExtArgs ==
    { <<"t", "x", "t">>, <<".", "s", "r", "t">>, <<"m", "p", "3">>,
      <<"t", "/", "x">> }

(***************************************************************************)
(* The remote API as seen through requests                                 *)
(***************************************************************************)
\* a JSON body with both an utterances list and a channels list
BodyTranscript ==
    "{\"results\":{\"utterances\":[{\"speaker\":12,\"transcript\":\" h\"}],\"channels\":[{\"alternatives\":[{\"transcript\":\"h \"}]}]}}"

\* a body that is no JSON
BodyPlain == "unauthorized"

\* response.json(): the parsed body, or JSONDecodeError
json_loads(text) ==
    IF text = BodyTranscript
    THEN Return([keys |-> {"results"},
                 results |-> [keys |-> {"utterances", "channels"},
                              utterances |-> <<SomeUtterance>>,
                              channels |-> <<SomeChannel>>]])
    ELSE Raise("JSONDecodeError")

\* what requests.post can give back: a response of any status the server
\* sends and requests hands on, or a transport exception
Responses ==
    { [kind |-> "response", status_code |-> 200, text |-> BodyTranscript],
      [kind |-> "response", status_code |-> 200, text |-> BodyPlain],
      [kind |-> "response", status_code |-> 304, text |-> BodyTranscript],
      [kind |-> "response", status_code |-> 401, text |-> BodyPlain] }

ConnectionError ==
    [kind |-> "exception", status_code |-> 0, text |-> "ConnectionError"]

\* response.raise_for_status(): HTTPError for a 4xx or a 5xx status
raise_for_status(r) ==
    IF 400 <= r.status_code /\ r.status_code < 600
    THEN Raise("HTTPError")
    ELSE Return("None")

(***************************************************************************)
(* main()                                                                  *)
(***************************************************************************)
Init ==
    /\ pc = "start"
    /\ api_key \in ApiKeys
    /\ folder_kind \in FolderKinds
    /\ fs \in (IF folder_kind = "dir" THEN Folders ELSE {<<>>})
    /\ ext \in ExtArgs
    /\ diarization \in BOOLEAN
    /\ audio_files = <<>>
    /\ i = 0
    /\ output_path = <<>>
    /\ handles = {}
    /\ response = NoResponse
    /\ result = NoResult
    /\ content = <<>>
    /\ status = <<>>
    /\ stderr = <<>>
    /\ stdout = <<>>
    /\ exit_code = <<>>
    /\ opened = <<>>
    /\ posted = <<>>
    /\ saved = <<>>
    /\ ret = NoReturn

\* sys.exit(code) after a message on stderr
ExitWithError(line) ==
    /\ stderr' = Append(stderr, line)
    /\ exit_code' = <<1>>
    /\ pc' = "exited"

\* lines 147-153: no API key
ValidateApiKey ==
    /\ pc = "start"
    /\ IF api_key = <<>> \/ api_key[1] = ""
       THEN ExitWithError([template |-> "Error: Deepgram API key required."])
       ELSE pc' = "check_exists" /\ UNCHANGED <<stderr, exit_code>>
    /\ UNCHANGED <<api_key, folder_kind, fs, ext, diarization, audio_files, i,
                   output_path, handles, response, result, content, status,
                   stdout, opened, posted, saved, ret>>

\* lines 155-158: the folder does not exist
ValidateFolderExists ==
    /\ pc = "check_exists"
    /\ IF folder_kind = "missing"
       THEN ExitWithError([template |-> "Error: Folder does not exist."])
       ELSE pc' = "check_is_dir" /\ UNCHANGED <<stderr, exit_code>>
    /\ UNCHANGED <<api_key, folder_kind, fs, ext, diarization, audio_files, i,
                   output_path, handles, response, result, content, status,
                   stdout, opened, posted, saved, ret>>

\* main() without the is_dir() test of lines 160-162
ValidateFolderIsDirSkipped ==
    /\ pc = "check_is_dir"
    /\ pc' = "discover"
    /\ UNCHANGED <<api_key, folder_kind, fs, ext, diarization, audio_files, i,
                   output_path, handles, response, result, content, status,
                   stderr, stdout, exit_code, opened, posted, saved, ret>>

\* lines 160-162: the folder is not a directory
ValidateFolderIsDir ==
    /\ pc = "check_is_dir"
    /\ IF folder_kind # "dir"
       THEN ExitWithError([template |-> "Error: not a directory."])
       ELSE pc' = "discover" /\ UNCHANGED <<stderr, exit_code>>
    /\ UNCHANGED <<api_key, folder_kind, fs, ext, diarization, audio_files, i,
                   output_path, handles, response, result, content, status,
                   stdout, opened, posted, saved, ret>>

\* lines 164-171: find the files; none is a normal exit
Discover ==
    /\ pc = "discover"
    /\ \E files \in find_audio_files(DOMAIN fs) :
        /\ audio_files' = files
        /\ status' = [k \in 1..Len(files) |-> "discovered"]
        /\ IF files = <<>>
           THEN /\ stdout' = Append(stdout, [template |-> "No supported audio/video files found"])
                /\ exit_code' = <<0>>
                /\ pc' = "exited"
                /\ i' = i
           ELSE /\ stdout' = Append(stdout, [template |-> "Found file(s) to transcribe", count |-> Len(files)])
                /\ exit_code' = exit_code
                /\ pc' = "loop"
                /\ i' = 1
    /\ UNCHANGED <<api_key, folder_kind, fs, ext, diarization, output_path,
                   handles, response, result, content, stderr, opened, posted,
                   saved, ret>>

\* the file the loop is at
audio_file == audio_files[i]

SetStatus(st) == status' = [status EXCEPT ![i] = st]

\* lines 192-194: the handler of requests.exceptions.HTTPError
ExceptHTTPError ==
    /\ stderr' = Append(stderr, [template |-> "  API Error: {status_code} - {text}",
                                 status_code |-> response.status_code,
                                 text |-> response.text])
    /\ SetStatus("failed")
    /\ i' = i + 1
    /\ pc' = "loop"

\* the handler of Exception, were it to go round the same file again
ExceptExceptionRetry(detail) ==
    /\ stderr' = Append(stderr, [template |-> "  Error transcribing {name}: {e}",
                                 name |-> audio_file,
                                 detail |-> detail])
    /\ SetStatus("failed")
    /\ i' = i
    /\ pc' = "loop"

\* lines 195-197: the handler of Exception
ExceptException(detail) ==
    /\ stderr' = Append(stderr, [template |-> "  Error transcribing {name}: {e}",
                                 name |-> audio_file,
                                 detail |-> detail])
    /\ SetStatus("failed")
    /\ i' = i + 1
    /\ pc' = "loop"

\* lines 174-177: the next file, its output path, the progress line
BeginFile ==
    /\ pc = "loop"
    /\ i <= Len(audio_files)
    /\ LET p == with_suffix(audio_file, <<".">> \o lstrip_dot(ext))
       IN /\ ~p.raised
          /\ output_path' = p.value
    /\ stdout' = Append(stdout, [template |-> "Transcribing", index |-> i,
                                 name |-> audio_file])
    /\ pc' = "transcribe"
    /\ UNCHANGED <<api_key, folder_kind, fs, ext, diarization, audio_files, i,
                   handles, response, result, content, status, stderr,
                   exit_code, opened, posted, saved, ret>>

\* line 175, outside the try: with_suffix raises ValueError, nothing catches
\* it, the interpreter prints the traceback and exits with 1
SuffixError ==
    /\ pc = "loop"
    /\ i <= Len(audio_files)
    /\ with_suffix(audio_file, <<".">> \o lstrip_dot(ext)).raised
    /\ stderr' = Append(stderr, [template |-> "Traceback", detail |-> "ValueError"])
    /\ exit_code' = <<1>>
    /\ pc' = "crashed"
    /\ UNCHANGED <<api_key, folder_kind, fs, ext, diarization, audio_files, i,
                   output_path, handles, response, result, content, status,
                   stdout, opened, posted, saved, ret>>

\* lines 180 and 64: transcribe_file is called and opens the source file;
\* open() may raise OSError
OpenSource ==
    /\ pc = "transcribe"
    /\ opened' = Append(opened, audio_file)
    /\ \/ /\ handles' = handles \cup {audio_file}
          /\ pc' = "post"
          /\ UNCHANGED <<status, stderr, i>>
       \/ /\ ExceptException("OSError")
          /\ UNCHANGED handles
    /\ UNCHANGED <<api_key, folder_kind, fs, ext, diarization, audio_files,
                   output_path, response, result, content, stdout, exit_code,
                   posted, saved, ret>>

\* line 65: the POST is sent; it ends with a response or a transport error
Post ==
    /\ pc = "post"
    /\ posted' = Append(posted, audio_file)
    /\ SetStatus("requested")
    /\ response' \in Responses \cup {ConnectionError}
    /\ pc' = "with_exit"
    /\ UNCHANGED <<api_key, folder_kind, fs, ext, diarization, audio_files, i,
                   output_path, handles, result, content, stderr, stdout,
                   exit_code, opened, saved, ret>>

\* the end of a with block that closes the handle only when the body did
\* not raise
CloseSourceOnSuccessOnly ==
    /\ pc = "with_exit"
    /\ IF response.kind = "exception"
       THEN ExceptException(response.text) /\ UNCHANGED handles
       ELSE /\ handles' = handles \ {audio_file}
            /\ pc' = "raise_for_status"
            /\ UNCHANGED <<status, stderr, i>>
    /\ UNCHANGED <<api_key, folder_kind, fs, ext, diarization, audio_files,
                   output_path, response, result, content, stdout, exit_code,
                   opened, posted, saved, ret>>

\* lines 64-65: the with block ends and closes the handle, on a response and
\* on an exception alike; the exception then reaches the handler
CloseSource ==
    /\ pc = "with_exit"
    /\ handles' = handles \ {audio_file}
    /\ IF response.kind = "exception"
       THEN ExceptException(response.text)
       ELSE pc' = "raise_for_status" /\ UNCHANGED <<status, stderr, i>>
    /\ UNCHANGED <<api_key, folder_kind, fs, ext, diarization, audio_files,
                   output_path, response, result, content, stdout, exit_code,
                   opened, posted, saved, ret>>

\* line 67
RaiseForStatus ==
    /\ pc = "raise_for_status"
    /\ IF raise_for_status(response).raised
       THEN ExceptHTTPError
       ELSE pc' = "json" /\ UNCHANGED <<status, stderr, i>>
    /\ UNCHANGED <<api_key, folder_kind, fs, ext, diarization, audio_files,
                   output_path, handles, response, result, content, stdout,
                   exit_code, opened, posted, saved, ret>>

\* lines 68 and 180: the body is parsed and transcribe_file returns it
ParseJson ==
    /\ pc = "json"
    /\ LET parsed == json_loads(response.text)
       IN IF parsed.raised
          THEN ExceptException(parsed.value) /\ UNCHANGED result
          ELSE /\ result' = parsed.value
               /\ SetStatus("succeeded")
               /\ pc' = "format"
               /\ UNCHANGED <<stderr, i>>
    /\ UNCHANGED <<api_key, folder_kind, fs, ext, diarization, audio_files,
                   output_path, handles, response, content, stdout, exit_code,
                   opened, posted, saved, ret>>

\* line 187
Format ==
    /\ pc = "format"
    /\ LET formatted == format_transcript(result, diarization)
       IN IF formatted.raised
          THEN ExceptException(formatted.value) /\ UNCHANGED content
          ELSE /\ content' = formatted.value
               /\ pc' = "save"
               /\ UNCHANGED <<status, stderr, i>>
    /\ UNCHANGED <<api_key, folder_kind, fs, ext, diarization, audio_files,
                   output_path, handles, response, result, stdout, exit_code,
                   opened, posted, saved, ret>>

\* fs with name holding data
WriteFile(name, data) ==
    [n \in DOMAIN fs \cup {name} |-> IF n = name THEN data ELSE fs[n]]

\* lines 188 and 93: open(output_path, "w") creates or truncates the file, or
\* raises OSError
SaveOpen ==
    /\ pc = "save"
    /\ saved' = Append(saved, output_path)
    /\ \/ /\ fs' = WriteFile(output_path, <<>>)
          /\ pc' = "write"
          /\ UNCHANGED <<status, stderr, i>>
       \/ /\ ExceptException("OSError")
          /\ UNCHANGED fs
    /\ UNCHANGED <<api_key, folder_kind, ext, diarization, audio_files,
                   output_path, handles, response, result, content, stdout,
                   exit_code, opened, posted, ret>>

\* lines 94 and 190: the content is written and the file reported, or the
\* write raises OSError and the truncated file stays
SaveWrite ==
    /\ pc = "write"
    /\ \/ /\ fs' = WriteFile(output_path, content)
          /\ SetStatus("written")
          /\ stdout' = Append(stdout, [template |-> "Saved to", name |-> output_path])
          /\ i' = i + 1
          /\ pc' = "loop"
          /\ UNCHANGED stderr
       \/ /\ ExceptException("OSError")
          /\ UNCHANGED <<fs, stdout>>
    /\ UNCHANGED <<api_key, folder_kind, ext, diarization, audio_files,
                   output_path, handles, response, result, content, exit_code,
                   opened, posted, saved, ret>>

\* line 199: the loop is over; main returns and the process exits with 0
Complete ==
    /\ pc = "loop"
    /\ i > Len(audio_files)
    /\ stdout' = Append(stdout, [template |-> "Transcription complete!"])
    /\ exit_code' = <<0>>
    /\ pc' = "done"
    /\ UNCHANGED <<api_key, folder_kind, fs, ext, diarization, audio_files, i,
                   output_path, handles, response, result, content, status,
                   stderr, opened, posted, saved, ret>>

Next ==
    \/ ValidateApiKey
    \/ ValidateFolderExists
    \/ ValidateFolderIsDir
    \/ Discover
    \/ BeginFile
    \/ SuffixError
    \/ OpenSource
    \/ Post
    \/ CloseSource
    \/ RaiseForStatus
    \/ ParseJson
    \/ Format
    \/ SaveOpen
    \/ SaveWrite
    \/ Complete

Spec == Init /\ [][Next]_vars

(***************************************************************************)
(* Properties of a run of main()                                           *)
(***************************************************************************)
\* the process has ended
Ended == exit_code # <<>>

\* the extension of a name is on the allow-list, whatever its letter case
IsSupported(name) ==
    \E k \in 1..Len(SUPPORTED_EXTENSIONS) : lower(suffix(name)) = SUPPORTED_EXTENSIONS[k]

\* the indices of the discovered files
Files == 1..Len(audio_files)

\* no element occurs twice in s
NoDuplicates(s) == \A a, b \in 1..Len(s) : s[a] = s[b] => a = b

\* C1: whatever files fail with a per-file error, every other discovered file
\* is requested, formatted and written, the loop reaches the completion
\* report and the run ends with exit code 0.
C1_FailureIsolation ==
    (Ended /\ audio_files # <<>>) =>
        /\ exit_code = <<0>>
        /\ pc = "done"
        /\ stdout[Len(stdout)].template = "Transcription complete!"
        /\ \A k \in Files : status[k] \in {"written", "failed"}
        /\ \A k \in Files : status[k] = "written" =>
                /\ audio_files[k] \in Range(posted)
                /\ with_suffix(audio_files[k], <<".">> \o lstrip_dot(ext)).value \in DOMAIN fs

\* the lifecycle of the claim: discovered -> requested -> (succeeded ->
\* written) | failed
ClaimedTransitions ==
    { <<"discovered", "requested">>, <<"requested", "succeeded">>,
      <<"succeeded", "written">>, <<"requested", "failed">> }

\* the lifecycle with failure from every state that is not final
LifecycleTransitions ==
    ClaimedTransitions \cup { <<"discovered", "failed">>, <<"succeeded", "failed">> }

\* every change of a file's status in this step is one of the transitions T
MovesAlong(T) ==
    \A k \in Files :
        (k \in DOMAIN status /\ status'[k] # status[k]) => <<status[k], status'[k]>> \in T

\* C2 as stated: files only move along discovered -> requested ->
\* (succeeded -> written) | failed.
C2_ClaimedLifecycle == [][MovesAlong(ClaimedTransitions)]_vars

\* an output is opened or written in this step only for the file at the loop
\* index, and only when its request has succeeded
WritesOnlyAfterSuccess ==
    (saved' # saved \/ fs' # fs) => (i \in Files /\ status[i] = "succeeded")

\* C2 amended: a file moves along discovered -> requested -> succeeded ->
\* written, or to failed from discovered, requested or succeeded; it is
\* requested at most once, written and failed are final, and an output is
\* written only after that file's request succeeded.
C2_Lifecycle ==
    /\ [][MovesAlong(LifecycleTransitions) /\ WritesOnlyAfterSuccess]_vars
    /\ [](NoDuplicates(posted) /\ Len(posted) <= Len(audio_files))

\* C2 witness: the first file failed after its request had succeeded and its
\* output had been opened, and the second file was written
C2_Witness ==
    /\ Len(audio_files) >= 2
    /\ status[1] = "failed" /\ Len(saved) = 2 /\ Len(posted) = 2
    /\ status[2] = "written"

\* C3: find_audio_files returns exactly the entries whose extension is on the
\* allow-list in any letter case, each once.
C3_DiscoverExact ==
    ((pc = "loop" \/ (pc = "exited" /\ exit_code = <<0>>)) /\ saved = <<>>) =>
        /\ Range(audio_files) = {n \in DOMAIN fs : IsSupported(n)}
        /\ NoDuplicates(audio_files)

\* C6: transcribe_file goes past raise_for_status, and returns a result, only
\* for a response with a 2xx status.
C6_HttpFailure ==
    pc \in {"json", "format"} =>
        (200 <= response.status_code /\ response.status_code < 300)

\* a start-up error: no usable key, or the folder is missing or no directory
BadStart ==
    \/ api_key = <<>>
    \/ api_key = <<"">>
    \/ folder_kind # "dir"

\* nothing was discovered, read, uploaded or written
Untouched ==
    /\ audio_files = <<>> /\ status = <<>>
    /\ opened = <<>> /\ posted = <<>> /\ saved = <<>>
    /\ \A n \in DOMAIN fs : fs[n] = MediaBytes

\* C7: with no API key, or a folder that is missing or no directory, the
\* process reports the error and exits with 1 before any file is discovered,
\* read, uploaded or written; with a valid folder that holds no supported
\* file it exits with 0 and sends no request.
C7_StartupErrors ==
    /\ BadStart =>
        /\ pc \in {"start", "check_exists", "check_is_dir", "exited"}
        /\ Untouched
        /\ stdout = <<>>
        /\ pc = "exited" => (exit_code = <<1>> /\ Len(stderr) = 1)
    /\ (~BadStart /\ \A n \in DOMAIN fs : ~IsSupported(n)) =>
        /\ pc \in {"start", "check_exists", "check_is_dir", "discover", "exited"}
        /\ opened = <<>> /\ posted = <<>> /\ saved = <<>>
        /\ pc = "exited" => (exit_code = <<0>> /\ stderr = <<>>)

\* C7 witness: a key is given, the folder is a file, and the run has ended
\* with 1 at the is_dir test
C7_Witness ==
    /\ api_key = <<"dg-key">> /\ folder_kind = "file"
    /\ pc = "exited" /\ exit_code = <<1>>
    /\ stderr = <<[template |-> "Error: not a directory."]>>

\* C8: the output path computed for a file has the stem of the source and
\* the configured extension without its leading dot, its extension differs
\* from the source's, and it is the path of no source media file.
C8_OutputPath ==
    pc \in {"transcribe", "post", "with_exit", "raise_for_status", "json",
            "format", "save", "write"} =>
        /\ stem(output_path) = stem(audio_file)
        /\ suffix(output_path) = <<".">> \o lstrip_dot(ext)
        /\ suffix(output_path) # suffix(audio_file)
        /\ output_path \notin Range(audio_files)

\* the indices of the files that failed, in the order of their failures
RECURSIVE FailedUpTo(_)
FailedUpTo(k) ==
    IF k = 0 THEN <<>>
    ELSE IF status[k] = "failed" THEN Append(FailedUpTo(k - 1), k)
    ELSE FailedUpTo(k - 1)

\* C9: every per-file error caught by the loop gives exactly one stderr
\* entry, and the entry holds the file's name and the error detail.
C9_ErrorLog ==
    (pc \notin {"start", "check_exists", "check_is_dir", "discover", "exited",
                "crashed"}) =>
        LET failed == FailedUpTo(Len(audio_files))
        IN /\ Len(stderr) = Len(failed)
           /\ \A j \in 1..Len(failed) :
                /\ "name" \in DOMAIN stderr[j]
                /\ stderr[j].name = audio_files[failed[j]]
                /\ "detail" \in DOMAIN stderr[j]
                    \/ {"status_code", "text"} \subseteq DOMAIN stderr[j]

\* C10: files are processed one at a time in discovery order: every file
\* before the loop index is written or failed and every file after it is
\* untouched; at most one source handle is open, only that of the file at the
\* loop index and only while its request runs, so it is closed, on success
\* and on an exception, before the next file is opened.
C10_Sequential ==
    /\ \A k \in Files :
        /\ k < i => status[k] \in {"written", "failed"}
        /\ k > i => status[k] = "discovered"
    /\ \A a, b \in 1..Len(posted) : a < b =>
        \E x, y \in Files :
            x < y /\ audio_files[x] = posted[a] /\ audio_files[y] = posted[b]
    /\ Cardinality(handles) <= 1
    /\ handles # {} => (pc \in {"post", "with_exit"} /\ handles = {audio_file})
    /\ pc \in {"post", "with_exit"} => handles = {audio_file}

\* C10 witness: the first file's request raised, its handle was closed, and
\* the second file's request is running with its own handle open
C10_Witness ==
    /\ i = 2 /\ pc = "with_exit"
    /\ status[1] = "failed" /\ stderr[1].detail = "ConnectionError"
    /\ handles = {audio_files[2]}

====
